---- MODULE Spec2Model ----
(***************************************************************************)
(* CorpFinity backend: the streak tracker (ChallengeService._update_streak,*)
(* StreakService.validate_streak / reset_streak) and the achievement       *)
(* evaluator (AchievementService.check_and_unlock / get_achievements /     *)
(* _unlock_achievement) over the tables user_streaks, challenge_history    *)
(* and user_achievements of one user.                                      *)
(*                                                                         *)
(* Spec      : every service call runs to completion on its own session    *)
(*             and commits (core/database.py get_db), one call at a time.  *)
(* SpecConc  : two concurrent requests run check_and_unlock or             *)
(*             get_achievements, split at their awaits, each in its own    *)
(*             transaction, while completions go on.                       *)
(***************************************************************************)
EXTENDS Integers, Sequences, FiniteSets, TLC

\* ---------------------------------------------------------------- bounds
MaxDay == 3          \* calendar dates are 1..MaxDay
MaxChallenges == 5   \* at most this many challenge_history rows
NumProcs == 2        \* concurrent requests in SpecConc
MaxReminders == 2    \* SpecCache: at most this many reminders are ever created
MaxTicks == 3        \* SpecSched: minutes that pass
MaxStarts == 2       \* SpecSched: polling tasks ever created
NumReqs == 2         \* SpecTxn: complete-challenge requests

\* ------------------------------------------------------------ the tables
\* last_completed_date is a nullable Date column
None == 0 - 1

Days == 1..MaxDay
Procs == 1..NumProcs

\* ACHIEVEMENT_DEFINITIONS, in catalog order
ACHIEVEMENT_DEFINITIONS ==
  << [id |-> "streak_3",       category |-> "streak",     requirement |-> 3],
     [id |-> "streak_7",       category |-> "streak",     requirement |-> 7],
     [id |-> "streak_30",      category |-> "streak",     requirement |-> 30],
     [id |-> "streak_100",     category |-> "streak",     requirement |-> 100],
     [id |-> "challenges_5",   category |-> "challenges", requirement |-> 5],
     [id |-> "challenges_25",  category |-> "challenges", requirement |-> 25],
     [id |-> "challenges_50",  category |-> "challenges", requirement |-> 50],
     [id |-> "challenges_100", category |-> "challenges", requirement |-> 100] >>

AchIds == { ACHIEVEMENT_DEFINITIONS[k].id : k \in 1..Len(ACHIEVEMENT_DEFINITIONS) }

VARIABLES
  today,              \* date.today()
  user_streaks,       \* the user's rows of table user_streaks (user_id is unique: 0 or 1 row)
  challenge_history,  \* number of the user's rows in table challenge_history
  user_achievements,  \* committed rows of table user_achievements: id -> number of rows
  procs,              \* SpecConc: the position and locals of each concurrent request
  lastOp,             \* the service call that ran last
  prevOp,             \* the service call before it
  pre,                \* the tables and the date when the last call started
  ret,                \* check_and_unlock: ids of newly_unlocked; get_achievements: its response
  prevRet,            \* what the call before the last returned
  completed_dates,    \* the dates of the rows complete_challenge added to challenge_history
  reminders,          \* SpecCache: the user's rows of table reminders
  cache,              \* SpecCache: the Redis keys of the reminders namespace
  redis_up,           \* SpecCache: does the Redis server answer?
  rop,                \* SpecCache: the last ReminderService call, its outcome and what it returned
  nextId,             \* SpecCache: reminder ids handed out so far
  clock,              \* SpecSched: datetime.now() as weekday (0 = Monday) and minute of the day
  elapsed,            \* SpecSched: minutes passed since the start
  table,              \* SpecSched: the rows select(Reminder).where(is_enabled) returns, in its order
  firebase,           \* SpecSched: FIREBASE_AVAILABLE and _firebase_app
  running,            \* SpecSched: SchedulerService._running
  task,               \* SpecSched: SchedulerService._task (0: None)
  tasks,              \* SpecSched: every polling task ever created
  starts,             \* SpecSched: number of tasks created
  stop_pc,            \* SpecSched: is a stop() call waiting at `await self._task`?
  attempts,           \* SpecSched: dispatches of each reminder on the current day
  sop,                \* SpecSched: the last start()/stop() call and what it found
  reqs,               \* SpecTxn: each complete-challenge request, its session and its detached check
  notified,           \* SpecTxn: achievement id -> times it was returned as newly unlocked
  push_tokens,        \* SpecNotify: the user's committed rows of table push_tokens
  rejected_tokens,    \* SpecNotify: tokens the transport rejected since they were registered
  nop                 \* SpecNotify: the last send_notification call and what it returned

cacheVars == << reminders, cache, redis_up, rop, nextId >>

coreVars == << today, user_streaks, challenge_history, user_achievements, procs,
              lastOp, prevOp, pre, ret, prevRet, completed_dates >>

\* the variables of the other specifications
schedVars == << clock, elapsed, table, firebase, running, task, tasks, starts,
               stop_pc, attempts, sop >>

txnVars == << reqs, notified >>

notifyVars == << push_tokens, rejected_tokens, nop >>

extVars == << cacheVars, schedVars, txnVars, notifyVars >>

vars == << today, user_streaks, challenge_history, user_achievements, procs,
           lastOp, prevOp, pre, ret, prevRet, completed_dates, extVars >>

\* scalar_one_or_none() of select(UserStreak).where(user_id == ...)
TheRow(rows) == CHOOSE r \in rows : TRUE

UserStreak(c, l, d) ==
  [current_streak |-> c, longest_streak |-> l, last_completed_date |-> d]

\* ------------------------------------------------------- streak tracker
\* _update_streak without the `last_completed_date == today` early return
UpdateStreak_NoSameDayReturn(rows, t) ==
  IF rows = {}
  THEN { UserStreak(1, 1, t) }
  ELSE LET streak == TheRow(rows)
           c == IF streak.last_completed_date = t - 1
                THEN streak.current_streak + 1
                ELSE 1
           l == IF c > streak.longest_streak THEN c ELSE streak.longest_streak
       IN { UserStreak(c, l, t) }

\* _update_streak without the update of longest_streak
UpdateStreak_StaleLongest(rows, t) ==
  IF rows = {}
  THEN { UserStreak(1, 1, t) }
  ELSE LET streak == TheRow(rows) IN
       IF streak.last_completed_date = t
       THEN rows
       ELSE LET c == IF streak.last_completed_date = t - 1
                     THEN streak.current_streak + 1
                     ELSE 1
            IN { UserStreak(c, streak.longest_streak, t) }

\* _update_streak creating the row with the column defaults
UpdateStreak_CreateDefault(rows, t) ==
  IF rows = {}
  THEN { UserStreak(0, 0, t) }
  ELSE LET streak == TheRow(rows) IN
       IF streak.last_completed_date = t
       THEN rows
       ELSE LET c == IF streak.last_completed_date = t - 1
                     THEN streak.current_streak + 1
                     ELSE 1
                l == IF c > streak.longest_streak THEN c ELSE streak.longest_streak
            IN { UserStreak(c, l, t) }

\* ChallengeService._update_streak: the rows after the call
UpdateStreak(rows, t) ==
  IF rows = {}
  THEN { UserStreak(1, 1, t) }
  ELSE LET streak == TheRow(rows) IN
       IF streak.last_completed_date = t
       THEN rows
       ELSE LET c == IF streak.last_completed_date = t - 1
                     THEN streak.current_streak + 1
                     ELSE 1
                l == IF c > streak.longest_streak THEN c ELSE streak.longest_streak
            IN { UserStreak(c, l, t) }

\* StreakService.validate_streak: the rows after the call
ValidateStreak(rows, t) ==
  IF rows = {}
  THEN { UserStreak(0, 0, None) }
  ELSE LET streak == TheRow(rows) IN
       IF streak.last_completed_date = t
       THEN rows
       ELSE IF streak.last_completed_date = t - 1
       THEN LET c == streak.current_streak + 1
                l == IF c > streak.longest_streak THEN c ELSE streak.longest_streak
            IN { UserStreak(c, l, t) }
       ELSE { UserStreak(1, streak.longest_streak, t) }

\* reset_streak clearing longest_streak too
ResetStreak_ClearsLongest(rows) ==
  IF rows # {}
  THEN { UserStreak(0, 0, None) }
  ELSE rows

\* StreakService.reset_streak: the rows after the call
ResetStreak(rows) ==
  IF rows # {}
  THEN { UserStreak(0, TheRow(rows).longest_streak, None) }
  ELSE rows

\* -------------------------------------------------- achievement evaluator
\* the loop without its `continue` for unlocked definitions
IsUnlocked_Never(id, unlocked_ids) == FALSE

\* `defn["id"] in unlocked_ids` (check_and_unlock) / `defn["id"] in unlocked_achievements`
IsUnlocked(id, unlocked_ids) == id \in unlocked_ids

\* should_unlock one short of the requirement
ShouldUnlock_OneShort(defn, longest_streak, total_challenges) ==
  IF defn.category = "streak"
  THEN longest_streak + 1 >= defn.requirement
  ELSE IF defn.category = "challenges"
  THEN total_challenges + 1 >= defn.requirement
  ELSE FALSE

\* should_unlock with > for >=
ShouldUnlock_Strict(defn, longest_streak, total_challenges) ==
  IF defn.category = "streak"
  THEN longest_streak > defn.requirement
  ELSE IF defn.category = "challenges"
  THEN total_challenges > defn.requirement
  ELSE FALSE

\* should_unlock of check_and_unlock and get_achievements (current_streak is read
\* by both and used by neither)
ShouldUnlock(defn, longest_streak, total_challenges) ==
  IF defn.category = "streak"
  THEN longest_streak >= defn.requirement
  ELSE IF defn.category = "challenges"
  THEN total_challenges >= defn.requirement
  ELSE FALSE

\* the index without unique=True
UniqueViolation_NoIndex(rows, id) == FALSE

\* idx_user_achievement, unique on (user_id, achievement_id): does a flush of
\* a new row for id hit a committed row?
UniqueViolation(rows, id) == rows[id] > 0

\* _unlock_achievement that never adds the row
UnlockAchievement_NoInsert(rows, id) == rows

\* AchievementService._unlock_achievement on one session: select, then add + flush
UnlockAchievement(rows, id) ==
  IF rows[id] > 0
  THEN rows
  ELSE [rows EXCEPT ![id] = @ + 1]

StreakLongest(rows) == IF rows # {} THEN TheRow(rows).longest_streak ELSE 0
UnlockedIds(rows) == { a \in AchIds : rows[a] > 0 }

\* the for loop of check_and_unlock from definition k on
RECURSIVE CheckLoop(_, _, _, _, _, _)
CheckLoop(k, longest_streak, total_challenges, unlocked_ids, rows, newly_unlocked) ==
  IF k > Len(ACHIEVEMENT_DEFINITIONS)
  THEN [rows |-> rows, result |-> newly_unlocked]
  ELSE LET defn == ACHIEVEMENT_DEFINITIONS[k] IN
       IF IsUnlocked(defn.id, unlocked_ids)
       THEN CheckLoop(k + 1, longest_streak, total_challenges,
                      unlocked_ids, rows, newly_unlocked)
       ELSE IF ShouldUnlock(defn, longest_streak, total_challenges)
       THEN CheckLoop(k + 1, longest_streak, total_challenges,
                      unlocked_ids, UnlockAchievement(rows, defn.id),
                      Append(newly_unlocked, defn.id))
       ELSE CheckLoop(k + 1, longest_streak, total_challenges,
                      unlocked_ids, rows, newly_unlocked)

\* AchievementService.check_and_unlock: the rows after the call and the list returned
CheckAndUnlock(streaks, total_challenges, rows) ==
  CheckLoop(1, StreakLongest(streaks), total_challenges,
            UnlockedIds(rows), rows, << >>)

\* the for loop of get_achievements from definition k on
RECURSIVE GetLoop(_, _, _, _, _, _, _)
GetLoop(k, longest_streak, challenge_count, unlocked_achievements, rows, achievements, unlocked_count) ==
  IF k > Len(ACHIEVEMENT_DEFINITIONS)
  THEN [rows |-> rows,
        result |-> [achievements |-> achievements,
                    unlocked_count |-> unlocked_count,
                    total_count |-> Len(ACHIEVEMENT_DEFINITIONS)]]
  ELSE LET defn == ACHIEVEMENT_DEFINITIONS[k]
           was_unlocked == IsUnlocked(defn.id, unlocked_achievements)
           should_unlock == ShouldUnlock(defn, longest_streak, challenge_count)
           auto == should_unlock /\ ~was_unlocked
           is_unlocked == was_unlocked \/ auto
       IN GetLoop(k + 1, longest_streak, challenge_count, unlocked_achievements,
                  IF auto THEN UnlockAchievement(rows, defn.id) ELSE rows,
                  Append(achievements, [id |-> defn.id, is_unlocked |-> is_unlocked]),
                  IF is_unlocked THEN unlocked_count + 1 ELSE unlocked_count)

\* AchievementService.get_achievements: the rows after the call and the
\* AchievementListResponse (id and is_unlocked of every entry, the counts)
GetAchievements(streaks, challenge_count, rows) ==
  GetLoop(1, StreakLongest(streaks), challenge_count,
          UnlockedIds(rows), rows, << >>, 0)


Snapshot ==
  [today |-> today, user_streaks |-> user_streaks,
   challenge_history |-> challenge_history, user_achievements |-> user_achievements]

IdleProc ==
  [pc |-> "idle", op |-> "none", longest_streak |-> 0, total |-> 0,
   unlocked_ids |-> {}, i |-> 1, pend |-> {}]

\* the Redis keys of the reminders namespace that the service names
CacheKeys == {"reminders:U", "reminders:U:False", "reminders:U:True"}

\* a cache key that Redis does not hold
Miss == [kind |-> "miss", body |-> {}]

\* the reminders part at rest: no row, nothing cached, Redis connected (api/index.py lifespan)
CacheInit ==
  /\ reminders = {}
  /\ cache = [k \in CacheKeys |-> Miss]
  /\ redis_up = TRUE
  /\ rop = [op |-> "none", arg |-> 0, out |-> "ok", fault |-> "none", ret |-> {}]
  /\ nextId = 1

\* a request record: the handler's position, what its session holds flushed
\* and uncommitted, the row _update_streak read, and its detached check
Reqs == 1..NumReqs
IdleReq ==
  [pc |-> "idle", error |-> "none", pend_hist |-> 0, pend_streak |-> {},
   wrote_streak |-> FALSE, pend_unlocks |-> {}, seen |-> {},
   c_hist |-> FALSE, c_streak |-> FALSE,
   tpc |-> "none", todo |-> << >>, newly_unlocked |-> << >>]

\* no request in flight
TxnInit ==
  /\ reqs = [r \in Reqs |-> IdleReq]
  /\ notified = [a \in AchIds |-> 0]

Tokens == {"t1", "t2", "t3"}

\* before: the stored tokens when the call started; tokens: those it sent to;
\* rejected: those the transport refused; known_bad: those among tokens that
\* the transport had refused before
NoSend ==
  [op |-> "none", available |-> FALSE, threw |-> FALSE, before |-> {}, tokens |-> {},
   rejected |-> {}, known_bad |-> {}, raised |-> FALSE,
   result |-> [success |-> 0, failure |-> 0]]

\* no push token registered, nothing sent
NotifyInit ==
  /\ push_tokens = {}
  /\ rejected_tokens = {}
  /\ nop = NoSend

\* ------------------------------------------------- reminder scheduler: data
\* a row of table reminders as the scheduler reads it
ReminderRow(user, h, m, frequency, custom_days) ==
  [user_id |-> user, time_hour |-> h, time_minute |-> m,
   frequency |-> frequency, custom_days |-> custom_days]

\* the tables of enabled reminders the scheduler is run against
TableMorning ==
  << ReminderRow("u1", 9, 0, "daily", {}),
     ReminderRow("u2", 9, 0, "custom", {1, 3}),
     ReminderRow("u1", 9, 1, "weekdays", {}) >>

TableMidnight ==
  << ReminderRow("u1", 0, 0, "daily", {}),
     ReminderRow("u1", 23, 59, "custom", {0, 6}),
     ReminderRow("u2", 0, 0, "weekdays", {}) >>

SampleTables == { TableMorning, TableMidnight }

\* a table whose second row was stored with time_hour = 24, which
\* ReminderCreate and ReminderUpdate accept
TableInvalid ==
  << ReminderRow("u1", 9, 0, "daily", {}),
     ReminderRow("u1", 24, 0, "daily", {}),
     ReminderRow("u2", 9, 0, "daily", {}) >>

\* minutes of the day the runs start at: 08:58 and 23:58
StartMinutes == { 8 * 60 + 58, 23 * 60 + 58 }

MinutesPerDay == 24 * 60

\* failed: how the current iteration failed ("no": it did not); afterFailure:
\* the iteration before the current one failed
NewTask ==
  [pc |-> "unborn", cancel |-> FALSE, now |-> [weekday |-> 0, minute |-> 0],
   pos |-> 0, sent |-> {}, failedAt |-> {}, failed |-> "no", afterFailure |-> FALSE]

NoCall ==
  [op |-> "none", wasRunning |-> FALSE, startsBefore |-> 0, inflight |-> FALSE,
   matching |-> {}, sentAtCall |-> {}]

\* the scheduler part at rest for the other specifications
SchedInit ==
  /\ clock = [weekday |-> 0, minute |-> 0]
  /\ elapsed = 0
  /\ table = TableMorning
  /\ firebase = FALSE
  /\ running = FALSE
  /\ task = 0
  /\ tasks = [t \in 1..MaxStarts |-> NewTask]
  /\ starts = 0
  /\ stop_pc = "idle"
  /\ attempts = [i \in 1..3 |-> 0]
  /\ sop = NoCall

CoreInit ==
  /\ today = 1
  /\ user_streaks = {}
  /\ challenge_history = 0
  /\ user_achievements = [a \in AchIds |-> 0]
  /\ procs = [p \in Procs |-> IdleProc]
  /\ lastOp = "none"
  /\ prevOp = "none"
  /\ pre = Snapshot
  /\ ret = << >>
  /\ prevRet = << >>
  /\ completed_dates = {}

Init ==
  /\ CoreInit
  /\ CacheInit
  /\ TxnInit
  /\ NotifyInit
  /\ SchedInit

Record(op, r) ==
  /\ prevOp' = lastOp
  /\ lastOp' = op
  /\ pre' = Snapshot
  /\ ret' = r
  /\ prevRet' = ret
  /\ completed_dates' = IF op = "complete" THEN completed_dates \cup {today}
                        ELSE completed_dates

\* the calendar moves on between requests
NextDay ==
  /\ today < MaxDay
  /\ today' = today + 1
  /\ UNCHANGED << user_streaks, challenge_history, user_achievements, procs,
                  lastOp, prevOp, pre, ret, prevRet, completed_dates, extVars >>

\* ChallengeService.complete_challenge: history row, then _update_streak
CompleteChallenge ==
  /\ challenge_history < MaxChallenges
  /\ challenge_history' = challenge_history + 1
  /\ user_streaks' = UpdateStreak(user_streaks, today)
  /\ UNCHANGED << today, user_achievements, procs, extVars >>

complete_challenge ==
  /\ CompleteChallenge
  /\ Record("complete", << >>)

validate_streak ==
  /\ user_streaks' = ValidateStreak(user_streaks, today)
  /\ Record("validate", << >>)
  /\ UNCHANGED << today, challenge_history, user_achievements, procs, extVars >>

reset_streak ==
  /\ user_streaks' = ResetStreak(user_streaks)
  /\ Record("reset", << >>)
  /\ UNCHANGED << today, challenge_history, user_achievements, procs, extVars >>

check_and_unlock ==
  /\ LET r == CheckAndUnlock(user_streaks, challenge_history, user_achievements)
     IN /\ user_achievements' = r.rows
        /\ Record("check", r.result)
  /\ UNCHANGED << today, user_streaks, challenge_history, procs, extVars >>

get_achievements ==
  /\ LET r == GetAchievements(user_streaks, challenge_history, user_achievements)
     IN /\ user_achievements' = r.rows
        /\ Record("get", r.result)
  /\ UNCHANGED << today, user_streaks, challenge_history, procs, extVars >>

Next ==
  \/ NextDay
  \/ complete_challenge
  \/ validate_streak
  \/ reset_streak
  \/ check_and_unlock
  \/ get_achievements

Spec == Init /\ [][Next]_vars

\* ------------------------------------------------ a long streak (SpecVeteran)
\* The user of the reset scenario: a row with current_streak = longest_streak
\* = 10 whose last date is today (validate_streak on consecutive days builds
\* it without any history row), no achievement checked yet.
VeteranStreak == 10

InitVeteran ==
  /\ today = 1
  /\ user_streaks = { UserStreak(VeteranStreak, VeteranStreak, 1) }
  /\ challenge_history = 0
  /\ user_achievements = [a \in AchIds |-> 0]
  /\ procs = [p \in Procs |-> IdleProc]
  /\ lastOp = "none"
  /\ prevOp = "none"
  /\ pre = Snapshot
  /\ ret = << >>
  /\ prevRet = << >>
  /\ completed_dates = {}
  /\ CacheInit
  /\ TxnInit
  /\ NotifyInit
  /\ SchedInit

SpecVeteran == InitVeteran /\ [][Next]_vars

\* ------------------------------------------- concurrent requests (SpecConc)
\* Each request holds its own AsyncSession (get_db): its selects see the
\* committed rows and its own flushed rows; its flushed rows are committed
\* when the handler returns and rolled back when it raises.
CurDefn(p) == ACHIEVEMENT_DEFINITIONS[procs[p].i]

\* a request enters check_and_unlock or get_achievements
Begin(p, op) ==
  /\ procs[p].pc = "idle"
  /\ procs' = [procs EXCEPT ![p].pc = "q1", ![p].op = op]
  /\ UNCHANGED << today, user_streaks, challenge_history, user_achievements,
                  lastOp, prevOp, pre, ret, prevRet, completed_dates, extVars >>

\* select(UserStreak): first query of check_and_unlock, second of get_achievements
ReadStreak(p) ==
  /\ procs[p].pc = (IF procs[p].op = "check" THEN "q1" ELSE "q2")
  /\ procs' = [procs EXCEPT ![p].longest_streak = StreakLongest(user_streaks),
                            ![p].pc = (IF procs[p].op = "check" THEN "q2" ELSE "q3")]
  /\ UNCHANGED << today, user_streaks, challenge_history, user_achievements,
                  lastOp, prevOp, pre, ret, prevRet, completed_dates, extVars >>

\* select(func.count(ChallengeHistory.id)) as the second query of check_and_unlock
ReadCount(p) ==
  /\ procs[p].op = "check"
  /\ procs[p].pc = "q2"
  /\ procs' = [procs EXCEPT ![p].total = challenge_history, ![p].pc = "q3"]
  /\ UNCHANGED << today, user_streaks, challenge_history, user_achievements,
                  lastOp, prevOp, pre, ret, prevRet, completed_dates, extVars >>

\* select(UserAchievement) as the first query of get_achievements
ReadUnlocked(p) ==
  /\ procs[p].op = "get"
  /\ procs[p].pc = "q1"
  /\ procs' = [procs EXCEPT ![p].unlocked_ids = UnlockedIds(user_achievements) \cup procs[p].pend,
                            ![p].pc = "q2"]
  /\ UNCHANGED << today, user_streaks, challenge_history, user_achievements,
                  lastOp, prevOp, pre, ret, prevRet, completed_dates, extVars >>

\* `for defn in ACHIEVEMENT_DEFINITIONS` from definition k on, up to the next
\* call of _unlock_achievement: the index of the next definition to unlock,
\* Len + 1 when the loop ends (no await in between: one step of the event loop)
RECURSIVE NextToUnlock(_, _)
NextToUnlock(pr, k) ==
  IF k > Len(ACHIEVEMENT_DEFINITIONS)
  THEN k
  ELSE IF /\ ~IsUnlocked(ACHIEVEMENT_DEFINITIONS[k].id, pr.unlocked_ids)
          /\ ShouldUnlock(ACHIEVEMENT_DEFINITIONS[k], pr.longest_streak, pr.total)
  THEN k
  ELSE NextToUnlock(pr, k + 1)

\* run the loop of request record pr on from definition k
RunLoop(pr, k) ==
  LET n == NextToUnlock(pr, k) IN
  [pr EXCEPT !.i = n,
             !.pc = IF n > Len(ACHIEVEMENT_DEFINITIONS) THEN "returned" ELSE "unlock"]

\* the last of the three queries, then the loop up to its first await
LastQuery(p) ==
  /\ procs[p].pc = "q3"
  /\ LET pr == IF procs[p].op = "check"
               THEN [procs[p] EXCEPT !.unlocked_ids = UnlockedIds(user_achievements) \cup procs[p].pend]
               ELSE [procs[p] EXCEPT !.total = challenge_history]
     IN procs' = [procs EXCEPT ![p] = RunLoop(pr, 1)]
  /\ UNCHANGED << today, user_streaks, challenge_history, user_achievements,
                  lastOp, prevOp, pre, ret, prevRet, completed_dates, extVars >>

\* _unlock_achievement: select the existing row, return if there is one
SelectExisting(p) ==
  /\ procs[p].pc = "unlock"
  /\ IF user_achievements[CurDefn(p).id] > 0 \/ CurDefn(p).id \in procs[p].pend
     THEN procs' = [procs EXCEPT ![p] = RunLoop(procs[p], procs[p].i + 1)]
     ELSE procs' = [procs EXCEPT ![p].pc = "flush"]
  /\ UNCHANGED << today, user_streaks, challenge_history, user_achievements,
                  lastOp, prevOp, pre, ret, prevRet, completed_dates, extVars >>

\* _unlock_achievement: db.add + flush. The insert waits while another
\* transaction holds an uncommitted row with the same key.
Flush(p) ==
  /\ procs[p].pc = "flush"
  /\ \A q \in Procs \ {p} : CurDefn(p).id \notin procs[q].pend
  /\ IF UniqueViolation(user_achievements, CurDefn(p).id)
     THEN procs' = [procs EXCEPT ![p].pc = "failed"]
     ELSE procs' = [procs EXCEPT ![p] =
                      RunLoop([procs[p] EXCEPT !.pend = @ \cup {CurDefn(p).id}],
                              procs[p].i + 1)]
  /\ UNCHANGED << today, user_streaks, challenge_history, user_achievements,
                  lastOp, prevOp, pre, ret, prevRet, completed_dates, extVars >>

\* get_db: the handler returned, session.commit()
Commit(p) ==
  /\ procs[p].pc = "returned"
  /\ user_achievements' = [a \in AchIds |->
        user_achievements[a] + (IF a \in procs[p].pend THEN 1 ELSE 0)]
  /\ procs' = [procs EXCEPT ![p] = IdleProc]
  /\ UNCHANGED << today, user_streaks, challenge_history,
                  lastOp, prevOp, pre, ret, prevRet, completed_dates, extVars >>

\* get_db: the handler raised, session.rollback()
Rollback(p) ==
  /\ procs[p].pc = "failed"
  /\ procs' = [procs EXCEPT ![p] = IdleProc]
  /\ UNCHANGED << today, user_streaks, challenge_history, user_achievements,
                  lastOp, prevOp, pre, ret, prevRet, completed_dates, extVars >>

\* a completion committed by another request of the user
OtherCompletes ==
  /\ CompleteChallenge
  /\ UNCHANGED << lastOp, prevOp, pre, ret, prevRet, completed_dates, extVars >>

NextConc ==
  \/ NextDay
  \/ OtherCompletes
  \/ \E p \in Procs : \E op \in {"check", "get"} : Begin(p, op)
  \/ \E p \in Procs : ReadStreak(p)
  \/ \E p \in Procs : ReadCount(p)
  \/ \E p \in Procs : ReadUnlocked(p)
  \/ \E p \in Procs : LastQuery(p)
  \/ \E p \in Procs : SelectExisting(p)
  \/ \E p \in Procs : Flush(p)
  \/ \E p \in Procs : Commit(p)
  \/ \E p \in Procs : Rollback(p)

SpecConc == Init /\ [][NextConc]_vars

\* ------------------------------------------ reminders and their cache (SpecCache)
\* One user U. A reminder row keeps the columns the list can differ in.
Hours == {8, 9}
Reminder(id, is_enabled, time_hour) ==
  [id |-> id, is_enabled |-> is_enabled, time_hour |-> time_hour]

\* get_reminders: cache_key = f"{user_id}:{enabled_only}" under prefix "reminders"
CacheKey(enabled_only) ==
  IF enabled_only THEN "reminders:U:True" ELSE "reminders:U:False"

\* the keys create_reminder deletes: cache_delete("reminders", user_id)
CreateInvalidates == {"reminders:U"}

\* the keys update_reminder, delete_reminder and toggle_reminder delete
UpdateInvalidates == {"reminders:U", "reminders:U:True"}

\* the select of get_reminders and the ReminderListResponse built from it
StoreResponse(rows, enabled_only) ==
  LET found == { r \in rows : ~enabled_only \/ r.is_enabled }
  IN [reminders |-> found, total |-> Cardinality(found)]

\* response.model_dump_json()
DumpJson(response) == [kind |-> "json", body |-> response]

\* json.loads(cached) and ReminderListResponse(**cached_data): does it raise?
LoadsRaises(cached) == cached.kind # "json"

\* RedisClient.delete of a set of keys
CacheDelete(c, keys) == [k \in DOMAIN c |-> IF k \in keys THEN Miss ELSE c[k]]

ROp(op, arg, out, fault, r) ==
  [op |-> op, arg |-> arg, out |-> out, fault |-> fault, ret |-> r]

\* ReminderService.create_reminder; a raising cache_delete fails the request
\* and get_db rolls the insert back
create_reminder(is_enabled, time_hour) ==
  /\ nextId <= MaxReminders
  /\ IF redis_up
     THEN /\ reminders' = reminders \cup { Reminder(nextId, is_enabled, time_hour) }
          /\ cache' = CacheDelete(cache, CreateInvalidates)
          /\ nextId' = nextId + 1
          /\ rop' = ROp("create", nextId, "ok", "none", {})
     ELSE /\ rop' = ROp("create", nextId, "raised", "unreachable", {})
          /\ UNCHANGED << reminders, cache, nextId >>
  /\ UNCHANGED << redis_up, coreVars, schedVars, txnVars, notifyVars >>

\* ReminderService.update_reminder with data.is_enabled and data.time_hour
\* ("none" / None: the field is not sent)
update_reminder(id, is_enabled, time_hour) ==
  /\ IF \A r \in reminders : r.id # id
     THEN /\ rop' = ROp("update", id, "not_found", "none", {})
          /\ UNCHANGED << reminders, cache >>
     ELSE LET old == CHOOSE r \in reminders : r.id = id
              new == Reminder(id,
                              IF is_enabled = "none" THEN old.is_enabled ELSE is_enabled = "true",
                              IF time_hour = None THEN old.time_hour ELSE time_hour)
          IN IF redis_up
             THEN /\ reminders' = (reminders \ {old}) \cup {new}
                  /\ cache' = CacheDelete(cache, UpdateInvalidates)
                  /\ rop' = ROp("update", id, "ok", "none", {})
             ELSE /\ rop' = ROp("update", id, "raised", "unreachable", {})
                  /\ UNCHANGED << reminders, cache >>
  /\ UNCHANGED << redis_up, nextId, coreVars, schedVars, txnVars, notifyVars >>

\* ReminderService.delete_reminder
delete_reminder(id) ==
  /\ IF \A r \in reminders : r.id # id
     THEN /\ rop' = ROp("delete", id, "ok", "none", {})
          /\ UNCHANGED << reminders, cache >>
     ELSE IF redis_up
     THEN /\ reminders' = { r \in reminders : r.id # id }
          /\ cache' = CacheDelete(cache, UpdateInvalidates)
          /\ rop' = ROp("delete", id, "ok", "none", {})
     ELSE /\ rop' = ROp("delete", id, "raised", "unreachable", {})
          /\ UNCHANGED << reminders, cache >>
  /\ UNCHANGED << redis_up, nextId, coreVars, schedVars, txnVars, notifyVars >>

\* ReminderService.toggle_reminder
toggle_reminder(id) ==
  /\ IF \A r \in reminders : r.id # id
     THEN /\ rop' = ROp("toggle", id, "not_found", "none", {})
          /\ UNCHANGED << reminders, cache >>
     ELSE LET old == CHOOSE r \in reminders : r.id = id
              new == Reminder(id, ~old.is_enabled, old.time_hour)
          IN IF redis_up
             THEN /\ reminders' = (reminders \ {old}) \cup {new}
                  /\ cache' = CacheDelete(cache, UpdateInvalidates)
                  /\ rop' = ROp("toggle", id, "ok", "none", {})
             ELSE /\ rop' = ROp("toggle", id, "raised", "unreachable", {})
                  /\ UNCHANGED << reminders, cache >>
  /\ UNCHANGED << redis_up, nextId, coreVars, schedVars, txnVars, notifyVars >>

\* ReminderService.get_reminders
get_reminders(enabled_only) ==
  LET key == CacheKey(enabled_only)
      cached == cache[key]
      response == StoreResponse(reminders, enabled_only)
  IN
  /\ IF ~redis_up
     THEN \* cache_get raises out of RedisClient.get
          /\ rop' = ROp("get", enabled_only, "raised", "unreachable", {})
          /\ UNCHANGED cache
     ELSE IF cached # Miss /\ ~LoadsRaises(cached)
     THEN /\ rop' = ROp("get", enabled_only, "ok", "none", cached.body)
          /\ UNCHANGED cache
     ELSE /\ cache' = [cache EXCEPT ![key] = DumpJson(response)]
          /\ rop' = ROp("get", enabled_only, "ok",
                        IF cached # Miss THEN "undecodable" ELSE "none", response)
  /\ UNCHANGED << reminders, redis_up, nextId, coreVars, schedVars, txnVars, notifyVars >>

\* a key outlives its ttl of 300 seconds
Expire(key) ==
  /\ cache[key] # Miss
  /\ cache' = [cache EXCEPT ![key] = Miss]
  /\ UNCHANGED << reminders, redis_up, rop, nextId, coreVars, schedVars, txnVars, notifyVars >>

\* a value that json.loads or the response schema rejects gets under a key
Corrupt(key) ==
  /\ redis_up
  /\ cache[key].kind = "json"
  /\ cache' = [cache EXCEPT ![key] = [kind |-> "garbage", body |-> {}]]
  /\ UNCHANGED << reminders, redis_up, rop, nextId, coreVars, schedVars, txnVars, notifyVars >>

\* the Redis server stops answering / answers again
RedisFails ==
  /\ redis_up
  /\ redis_up' = FALSE
  /\ UNCHANGED << reminders, cache, rop, nextId, coreVars, schedVars, txnVars, notifyVars >>

RedisRecovers ==
  /\ ~redis_up
  /\ redis_up' = TRUE
  /\ UNCHANGED << reminders, cache, rop, nextId, coreVars, schedVars, txnVars, notifyVars >>

NextCache ==
  \/ \E e \in BOOLEAN : \E h \in Hours : create_reminder(e, h)
  \/ \E id \in 1..MaxReminders : \E e \in {"none", "true", "false"} :
       \E h \in Hours \cup {None} : update_reminder(id, e, h)
  \/ \E id \in 1..MaxReminders : delete_reminder(id)
  \/ \E id \in 1..MaxReminders : toggle_reminder(id)
  \/ \E e \in BOOLEAN : get_reminders(e)
  \/ \E k \in CacheKeys : Expire(k)
  \/ \E k \in CacheKeys : Corrupt(k)
  \/ RedisFails
  \/ RedisRecovers

SpecCache == Init /\ [][NextCache]_vars

\* ---------------------------------------------- reminder scheduler (SpecSched)
Abs(x) == IF x < 0 THEN 0 - x ELSE x

\* current_time.hour * 60 + current_time.minute
NowMinutes(now) == (now.minute \div 60) * 60 + (now.minute % 60)

\* the conversion without its + 1
CustomWeekday_Python(current_weekday) == current_weekday

\* custom_weekday = (current_weekday + 1) % 7
CustomWeekday(current_weekday) == (current_weekday + 1) % 7

\* time_diff > 1 of _should_send_reminder, negated
TimeMatches(reminder, now) ==
  Abs(NowMinutes(now) - (reminder.time_hour * 60 + reminder.time_minute)) <= 1

\* SchedulerService._should_send_reminder
ShouldSendReminder(reminder, now) ==
  IF ~TimeMatches(reminder, now)
  THEN FALSE
  ELSE IF reminder.frequency = "daily"
  THEN TRUE
  ELSE IF reminder.frequency = "weekdays"
  THEN now.weekday < 5
  ELSE IF reminder.frequency = "custom"
  THEN CustomWeekday(now.weekday) \in reminder.custom_days
  ELSE FALSE

\* _get_all_enabled_reminders groups the rows by user in a dict, and
\* _check_and_send_reminders walks the dict: the row indices in visiting order
RECURSIVE UsersInOrder(_, _, _)
UsersInOrder(tbl, k, seen) ==
  IF k > Len(tbl)
  THEN seen
  ELSE IF \E j \in 1..Len(seen) : seen[j] = tbl[k].user_id
  THEN UsersInOrder(tbl, k + 1, seen)
  ELSE UsersInOrder(tbl, k + 1, Append(seen, tbl[k].user_id))

RECURSIVE RowsOfUsers(_, _, _)
RowsOfUsers(tbl, users, k) ==
  IF k > Len(users)
  THEN << >>
  ELSE SelectSeq([i \in 1..Len(tbl) |-> i], LAMBDA i : tbl[i].user_id = users[k])
         \o RowsOfUsers(tbl, users, k + 1)

VisitOrder(tbl) == RowsOfUsers(tbl, UsersInOrder(tbl, 1, << >>), 1)

\* time(reminder.time_hour, reminder.time_minute) raises ValueError
ReminderTimeRaises(reminder) ==
  ~(reminder.time_hour \in 0..23 /\ reminder.time_minute \in 0..59)

\* the position, from k on, of the next row at which the loop leaves its
\* synchronous run: the row is dispatched or its evaluation raises
\* (Len + 1: none)
RECURSIVE NextMatching(_, _, _)
NextMatching(tbl, now, k) ==
  IF k > Len(VisitOrder(tbl))
  THEN k
  ELSE IF ReminderTimeRaises(tbl[VisitOrder(tbl)[k]])
  THEN k
  ELSE IF ShouldSendReminder(tbl[VisitOrder(tbl)[k]], now)
  THEN k
  ELSE NextMatching(tbl, now, k + 1)

\* the position of the first row whose evaluation raises (Len + 1: none)
RECURSIVE FirstRaising(_, _)
FirstRaising(tbl, k) ==
  IF k > Len(VisitOrder(tbl))
  THEN k
  ELSE IF ReminderTimeRaises(tbl[VisitOrder(tbl)[k]])
  THEN k
  ELSE FirstRaising(tbl, k + 1)

Matching(tbl, now) ==
  { i \in 1..Len(tbl) : ~ReminderTimeRaises(tbl[i]) /\ ShouldSendReminder(tbl[i], now) }

\* the matching rows the loop reaches when no dispatch suspends it
LocalDispatches(tbl, now) ==
  { i \in Matching(tbl, now) :
      \E k \in 1..(FirstRaising(tbl, 1) - 1) : VisitOrder(tbl)[k] = i }

\* the loop of _check_and_send_reminders from position k up to its next await
LoopFrom(tk, tbl, k) ==
  LET n == NextMatching(tbl, tk.now, k)
  IN IF n > Len(tbl)
     THEN [tk EXCEPT !.pos = n, !.pc = "sleep"]
     ELSE IF ReminderTimeRaises(tbl[VisitOrder(tbl)[n]])
     THEN [tk EXCEPT !.pos = n, !.pc = "sleep", !.failed = "evaluate"]
     ELSE [tk EXCEPT !.pos = n, !.pc = "send"]

\* an exception that leaves _check_and_send_reminders ends the task
AfterLoopException_Propagates(pc) == "done"

\* `except Exception` of _scheduler_loop: log, sleep, go round again
AfterLoopException(pc) == "errsleep"

\* _send_reminder_notification lets the exception of a dispatch escape
SendReminderNotification_NoExcept(outcome) ==
  IF outcome = "raises" THEN "raised" ELSE "returned"

\* _send_reminder_notification: try / except Exception around the dispatch
SendReminderNotification(outcome) == "returned"

\* start() finds the scheduler running
StartIsNoop_Never(is_running) == FALSE

\* `if self._running: return` of start()
StartIsNoop(is_running) == is_running

\* stop() that does not wait for the task
AwaitTaskDone_NoWait(pc) == TRUE

\* `await self._task` of stop(): may it return?
AwaitTaskDone(pc) == pc = "done"

LiveTasks == { t \in 1..MaxStarts : tasks[t].pc \notin {"unborn", "done"} }

\* one minute later; a new day starts the per-day dispatch counts again
Tick ==
  /\ elapsed < MaxTicks
  /\ elapsed' = elapsed + 1
  /\ IF clock.minute + 1 = MinutesPerDay
     THEN /\ clock' = [weekday |-> (clock.weekday + 1) % 7, minute |-> 0]
          /\ attempts' = [i \in DOMAIN attempts |-> 0]
     ELSE /\ clock' = [clock EXCEPT !.minute = @ + 1]
          /\ UNCHANGED attempts

\* the top of `while self._running` with the clock at c: datetime.now(), the
\* session is opened, the select is sent; opened = FALSE: AsyncSessionLocal()
\* raises, `except Exception` of _scheduler_loop sleeps
EnterIteration(tk, c, opened) ==
  IF ~running
  THEN [tk EXCEPT !.pc = "done"]
  ELSE IF ~opened
  THEN [tk EXCEPT !.pc = AfterLoopException(tk.pc), !.now = c, !.pos = 0, !.sent = {},
                  !.failedAt = {}, !.failed = "session",
                  !.afterFailure = (tk.failed # "no")]
  ELSE [tk EXCEPT !.pc = "fetch", !.now = c, !.pos = 0, !.sent = {}, !.failedAt = {},
                  !.failed = "no", !.afterFailure = (tk.failed # "no")]

\* SchedulerService.start
start ==
  /\ stop_pc = "idle"
  /\ sop' = [NoCall EXCEPT !.op = "start", !.wasRunning = running, !.startsBefore = starts]
  /\ IF StartIsNoop(running)
     THEN UNCHANGED << running, task, tasks, starts >>
     ELSE /\ starts < MaxStarts
          /\ running' = TRUE
          /\ starts' = starts + 1
          /\ task' = starts + 1
          /\ tasks' = [t \in 1..MaxStarts |->
                         IF t = starts + 1 THEN [NewTask EXCEPT !.pc = "new"]
                         ELSE IF tasks[t].pc = "done" THEN [NewTask EXCEPT !.pc = "done"]
                         ELSE tasks[t]]
  /\ UNCHANGED << clock, elapsed, table, firebase, stop_pc, attempts, coreVars, cacheVars, txnVars, notifyVars >>

\* SchedulerService.stop up to `await self._task`
stop ==
  /\ stop_pc = "idle"
  /\ IF ~running
     THEN /\ sop' = [NoCall EXCEPT !.op = "stop", !.startsBefore = starts]
          /\ UNCHANGED << running, tasks, stop_pc >>
     ELSE /\ running' = FALSE
          /\ sop' = [op |-> "stop", wasRunning |-> TRUE, startsBefore |-> starts,
                     inflight |-> tasks[task].pc = "send",
                     matching |-> IF tasks[task].pc = "send"
                                  THEN Matching(table, tasks[task].now) ELSE {},
                     sentAtCall |-> tasks[task].sent]
          /\ tasks' = [tasks EXCEPT ![task].cancel = (tasks[task].pc # "done")]
          /\ stop_pc' = "stopping"
  /\ UNCHANGED << clock, elapsed, table, firebase, task, starts, attempts, coreVars, cacheVars, txnVars, notifyVars >>

\* SchedulerService.stop: the awaited task has ended, stop() returns
stop_return ==
  /\ stop_pc = "stopping"
  /\ AwaitTaskDone(tasks[task].pc)
  /\ stop_pc' = "idle"
  /\ sop' = [sop EXCEPT !.op = "stop_returned"]
  /\ UNCHANGED << clock, elapsed, table, firebase, running, task, tasks, starts,
                  attempts, coreVars, cacheVars, txnVars, notifyVars >>

\* the task runs for the first time
TaskBegins(t, opened) ==
  /\ tasks[t].pc = "new"
  /\ ~tasks[t].cancel
  /\ tasks' = [tasks EXCEPT ![t] = EnterIteration(tasks[t], clock, opened)]
  /\ UNCHANGED << clock, elapsed, table, firebase, running, task, starts, stop_pc,
                  attempts, sop, coreVars, cacheVars, txnVars, notifyVars >>

\* asyncio.sleep(60) is over: the clock is one minute on, the loop goes round
Wake(t, opened) ==
  /\ tasks[t].pc \in {"sleep", "errsleep"}
  /\ ~tasks[t].cancel
  /\ Tick
  /\ tasks' = [tasks EXCEPT ![t] = EnterIteration(tasks[t], clock', opened)]
  /\ UNCHANGED << table, firebase, running, task, starts, stop_pc, sop,
                  coreVars, cacheVars, txnVars, notifyVars >>

\* _get_all_enabled_reminders answers (ok) or raises (caught in
\* _check_and_send_reminders), then the loop runs up to its next await: without
\* Firebase send_notification returns at once, so all matching rows are done
Fetch(t, ok) ==
  /\ tasks[t].pc = "fetch"
  /\ ~tasks[t].cancel
  /\ IF ~ok
     THEN /\ tasks' = [tasks EXCEPT ![t].pc = "sleep", ![t].failed = "fetch"]
          /\ UNCHANGED attempts
     ELSE IF ~firebase
     THEN /\ tasks' = [tasks EXCEPT ![t].pc = "sleep",
                                    ![t].sent = LocalDispatches(table, tasks[t].now),
                                    ![t].failed = IF FirstRaising(table, 1) <= Len(table)
                                                  THEN "evaluate" ELSE "no"]
          /\ attempts' = [i \in DOMAIN attempts |->
                            attempts[i] + (IF i \in LocalDispatches(table, tasks[t].now)
                                           THEN 1 ELSE 0)]
     ELSE /\ tasks' = [tasks EXCEPT ![t] = LoopFrom(tasks[t], table, 1)]
          /\ UNCHANGED attempts
  /\ UNCHANGED << clock, elapsed, table, firebase, running, task, starts, stop_pc,
                  sop, coreVars, cacheVars, txnVars, notifyVars >>

\* the dispatch of the row at pos ends: the notification went out (ok) or the
\* dispatch raised; then the loop runs up to its next await
Send(t, outcome) ==
  /\ tasks[t].pc = "send"
  /\ ~tasks[t].cancel
  /\ LET i == VisitOrder(table)[tasks[t].pos]
         dispatched == [tasks[t] EXCEPT
                          !.sent = @ \cup {i},
                          !.failedAt = IF outcome = "raises" THEN @ \cup {i} ELSE @]
     IN /\ attempts' = [attempts EXCEPT ![i] = @ + 1]
        /\ IF SendReminderNotification(outcome) = "raised"
           THEN tasks' = [tasks EXCEPT ![t] =
                            [dispatched EXCEPT !.pc = "sleep", !.failed = "dispatch"]]
           ELSE tasks' = [tasks EXCEPT ![t] = LoopFrom(dispatched, table, tasks[t].pos + 1)]
  /\ UNCHANGED << clock, elapsed, table, firebase, running, task, starts, stop_pc,
                  sop, coreVars, cacheVars, txnVars, notifyVars >>

\* task.cancel(): CancelledError is thrown at the await the task is suspended
\* at; no `except Exception` catches it, `except asyncio.CancelledError: break`
Cancelled(t) ==
  /\ tasks[t].cancel
  /\ tasks[t].pc # "done"
  /\ tasks' = [tasks EXCEPT ![t].pc = "done", ![t].cancel = FALSE]
  /\ UNCHANGED << clock, elapsed, table, firebase, running, task, starts, stop_pc,
                  attempts, sop, coreVars, cacheVars, txnVars, notifyVars >>

\* a minute passes while no task is alive
TimePasses ==
  /\ LiveTasks = {}
  /\ Tick
  /\ UNCHANGED << table, firebase, running, task, tasks, starts, stop_pc, sop,
                  coreVars, cacheVars, txnVars, notifyVars >>

InitSched ==
  /\ CoreInit
  /\ CacheInit
  /\ TxnInit
  /\ NotifyInit
  /\ clock \in [weekday : 0..6, minute : StartMinutes]
  /\ elapsed = 0
  /\ table \in SampleTables
  /\ firebase \in BOOLEAN
  /\ running = FALSE
  /\ task = 0
  /\ tasks = [t \in 1..MaxStarts |-> NewTask]
  /\ starts = 0
  /\ stop_pc = "idle"
  /\ attempts = [i \in 1..3 |-> 0]
  /\ sop = NoCall

\* runs on one table with a reminder whose stored time is out of range
InitSchedInvalid ==
  /\ CoreInit
  /\ CacheInit
  /\ TxnInit
  /\ NotifyInit
  /\ clock \in [weekday : {0, 6}, minute : StartMinutes]
  /\ elapsed = 0
  /\ table = TableInvalid
  /\ firebase \in BOOLEAN
  /\ running = FALSE
  /\ task = 0
  /\ tasks = [t \in 1..MaxStarts |-> NewTask]
  /\ starts = 0
  /\ stop_pc = "idle"
  /\ attempts = [i \in 1..3 |-> 0]
  /\ sop = NoCall

\* runs that start on a Monday morning, for the progress of the loop
InitSchedLive ==
  /\ CoreInit
  /\ CacheInit
  /\ TxnInit
  /\ NotifyInit
  /\ clock = [weekday |-> 0, minute |-> 8 * 60 + 58]
  /\ elapsed = 0
  /\ table = TableMorning
  /\ firebase \in BOOLEAN
  /\ running = FALSE
  /\ task = 0
  /\ tasks = [t \in 1..MaxStarts |-> NewTask]
  /\ starts = 0
  /\ stop_pc = "idle"
  /\ attempts = [i \in 1..3 |-> 0]
  /\ sop = NoCall

NextSched ==
  \/ start
  \/ stop
  \/ stop_return
  \/ \E t \in 1..MaxStarts : \E opened \in BOOLEAN : TaskBegins(t, opened)
  \/ \E t \in 1..MaxStarts : \E opened \in BOOLEAN : Wake(t, opened)
  \/ \E t \in 1..MaxStarts : \E ok \in BOOLEAN : Fetch(t, ok)
  \/ \E t \in 1..MaxStarts : \E outcome \in {"ok", "raises"} : Send(t, outcome)
  \/ \E t \in 1..MaxStarts : Cancelled(t)
  \/ TimePasses

SpecSched == InitSched /\ [][NextSched]_vars

SpecSchedInvalid == InitSchedInvalid /\ [][NextSched]_vars

\* the event loop resumes a task whose await has completed: asyncio.sleep(60)
\* ends, a query answers, a dispatch returns, a cancellation is delivered
SchedFairness ==
  /\ WF_vars(\E t \in 1..MaxStarts : \E opened \in BOOLEAN : TaskBegins(t, opened))
  /\ WF_vars(\E t \in 1..MaxStarts : \E opened \in BOOLEAN : Wake(t, opened))
  /\ WF_vars(\E t \in 1..MaxStarts : \E ok \in BOOLEAN : Fetch(t, ok))
  /\ WF_vars(\E t \in 1..MaxStarts : \E outcome \in {"ok", "raises"} : Send(t, outcome))
  /\ WF_vars(\E t \in 1..MaxStarts : Cancelled(t))

SpecSchedLive == InitSchedLive /\ [][NextSched]_vars /\ SchedFairness

\* ------------------------------- the complete-challenge route (SpecTxn)
\* POST /challenges/complete (api/challenges.py): the handler runs on the
\* AsyncSession of get_db, starts _check_achievements_after_challenge as a
\* detached task on the same session, and get_db commits when the handler
\* returns, rolls back when it raises, and closes the session.

\* a session factory with autocommit
Autocommit_On == TRUE

\* async_sessionmaker(..., autocommit=False): a flush is not a commit
Autocommit == FALSE

\* what the session of request r sees: the committed rows and its own
\* flushed rows
ViewStreak(r) == IF reqs[r].pend_streak # {} THEN reqs[r].pend_streak ELSE user_streaks
ViewCount(r) == challenge_history + reqs[r].pend_hist
ViewUnlocked(r) == UnlockedIds(user_achievements) \cup reqs[r].pend_unlocks

\* the session of r loses what it holds uncommitted
Discard(rq) == [rq EXCEPT !.pend_hist = 0, !.pend_streak = {}, !.pend_unlocks = {}]

\* ChallengeService.complete_challenge: db.add(challenge), flush, refresh
AddHistory(r) ==
  /\ reqs[r].pc = "idle"
  /\ IF Autocommit
     THEN /\ challenge_history' = challenge_history + 1
          /\ reqs' = [reqs EXCEPT ![r].pc = "q_streak", ![r].c_hist = TRUE]
     ELSE /\ reqs' = [reqs EXCEPT ![r].pc = "q_streak", ![r].pend_hist = 1]
          /\ UNCHANGED challenge_history
  /\ UNCHANGED << today, user_streaks, user_achievements, procs, lastOp, prevOp, pre,
                  ret, prevRet, completed_dates, notified, cacheVars, schedVars, notifyVars >>

\* _update_streak: select(UserStreak)
ReadStreakRow(r) ==
  /\ reqs[r].pc = "q_streak"
  /\ reqs' = [reqs EXCEPT ![r].pc = "w_streak", ![r].seen = ViewStreak(r)]
  /\ UNCHANGED << coreVars, notified, cacheVars, schedVars, notifyVars >>

\* the row an UPDATE of the changed columns leaves: current_streak and
\* last_completed_date always, longest_streak when the request raised it
MergeStreak(committed, seen, mine) ==
  { UserStreak(TheRow(mine).current_streak,
               IF TheRow(mine).longest_streak # TheRow(seen).longest_streak
               THEN TheRow(mine).longest_streak
               ELSE TheRow(committed).longest_streak,
               TheRow(mine).last_completed_date) }

\* _update_streak: the branch on the row read, then flush. An INSERT waits
\* for an uncommitted row with the same user_id (unique) and fails when such
\* a row is committed; an UPDATE waits for the row lock.
WriteStreak(r) ==
  /\ reqs[r].pc = "w_streak"
  /\ LET seen == reqs[r].seen
         mine == UpdateStreak(seen, today)
     IN IF seen # {} /\ TheRow(seen).last_completed_date = today
        THEN /\ reqs' = [reqs EXCEPT ![r].pc = "cache", ![r].wrote_streak = TRUE]
             /\ UNCHANGED user_streaks
        ELSE /\ \A q \in Reqs \ {r} : reqs[q].pend_streak = {}
             /\ IF seen = {} /\ user_streaks # {}
                THEN /\ reqs' = [reqs EXCEPT ![r].pc = "failed", ![r].error = "integrity"]
                     /\ UNCHANGED user_streaks
                ELSE LET row == IF seen = {} THEN mine
                                ELSE MergeStreak(user_streaks, seen, mine)
                     IN IF Autocommit
                        THEN /\ user_streaks' = row
                             /\ reqs' = [reqs EXCEPT ![r].pc = "cache",
                                                     ![r].wrote_streak = TRUE,
                                                     ![r].c_streak = TRUE]
                        ELSE /\ reqs' = [reqs EXCEPT ![r].pc = "cache",
                                                     ![r].wrote_streak = TRUE,
                                                     ![r].pend_streak = row]
                             /\ UNCHANGED user_streaks
  /\ UNCHANGED << today, challenge_history, user_achievements, procs, lastOp, prevOp, pre,
                  ret, prevRet, completed_dates, notified, cacheVars, schedVars, notifyVars >>

\* redis_client.cache_delete("streak", user_id), which raises when Redis
\* fails; then the handler creates the detached achievement check
CacheDeleteStreak(r, ok) ==
  /\ reqs[r].pc = "cache"
  /\ IF ok
     THEN reqs' = [reqs EXCEPT ![r].pc = "get_streak", ![r].tpc = "ready"]
     ELSE reqs' = [reqs EXCEPT ![r].pc = "failed", ![r].error = "redis"]
  /\ UNCHANGED << coreVars, notified, cacheVars, schedVars, notifyVars >>

\* get_streak_data: when the select finds a row it calls
\* streak.model_dump_json(), which the ORM class UserStreak does not have:
\* AttributeError. Without a row the handler returns and get_db commits.
GetStreakData(r) ==
  /\ reqs[r].pc = "get_streak"
  /\ IF ViewStreak(r) # {}
     THEN /\ reqs' = [reqs EXCEPT ![r].pc = "failed", ![r].error = "attribute"]
          /\ UNCHANGED << challenge_history, user_streaks, user_achievements >>
     ELSE /\ challenge_history' = challenge_history + reqs[r].pend_hist
          /\ user_streaks' = IF reqs[r].pend_streak # {} THEN reqs[r].pend_streak
                             ELSE user_streaks
          /\ user_achievements' = [a \in AchIds |->
               user_achievements[a] + (IF a \in reqs[r].pend_unlocks THEN 1 ELSE 0)]
          /\ reqs' = [reqs EXCEPT ![r] = [Discard(reqs[r]) EXCEPT
                        !.pc = "committed",
                        !.c_hist = (reqs[r].pend_hist = 1),
                        !.c_streak = reqs[r].wrote_streak]]
  /\ UNCHANGED << today, procs, lastOp, prevOp, pre, ret, prevRet, completed_dates,
                  notified, cacheVars, schedVars, notifyVars >>

\* get_db: `except Exception: await session.rollback()`
Rollback_get_db(r) ==
  /\ reqs[r].pc = "failed"
  /\ reqs' = [reqs EXCEPT ![r] = [Discard(reqs[r]) EXCEPT !.pc = "rolledback"]]
  /\ UNCHANGED << coreVars, notified, cacheVars, schedVars, notifyVars >>

\* get_db: `finally: await session.close()`, which rolls back what the
\* session has flushed since
Close_get_db(r) ==
  /\ reqs[r].pc \in {"committed", "rolledback"}
  /\ reqs' = [reqs EXCEPT ![r] = [Discard(reqs[r]) EXCEPT !.pc = "closed"]]
  /\ UNCHANGED << coreVars, notified, cacheVars, schedVars, notifyVars >>

\* the process dies: every open transaction is lost, every task is gone
Crash ==
  /\ \E r \in Reqs : reqs[r].pc \notin {"idle", "closed"}
  /\ reqs' = [r \in Reqs |->
                IF reqs[r].pc \in {"idle", "closed"} /\ reqs[r].tpc \in {"none", "done"}
                THEN reqs[r]
                ELSE [Discard(reqs[r]) EXCEPT
                        !.pc = IF reqs[r].pc = "idle" THEN "idle" ELSE "closed",
                        !.error = IF reqs[r].pc \in {"idle", "closed"} THEN @ ELSE "crash",
                        !.tpc = IF reqs[r].tpc = "none" THEN "none" ELSE "done",
                        !.todo = << >>, !.newly_unlocked = << >>]]
  /\ UNCHANGED << coreVars, notified, cacheVars, schedVars, notifyVars >>

\* check_and_unlock on the session of r: its three selects, and the
\* definitions its loop will unlock
TaskQueries(r) ==
  /\ reqs[r].tpc = "ready"
  /\ reqs' = [reqs EXCEPT
       ![r].tpc = "loop",
       ![r].todo = CheckLoop(1, StreakLongest(ViewStreak(r)), ViewCount(r),
                             ViewUnlocked(r), user_achievements, << >>).result]
  /\ UNCHANGED << coreVars, notified, cacheVars, schedVars, notifyVars >>

\* _unlock_achievement for the next definition: select the existing row,
\* return if there is one, else add + flush (the insert waits for an
\* uncommitted row with the same key); check_and_unlock appends the
\* definition to newly_unlocked
TaskUnlock(r) ==
  /\ reqs[r].tpc = "loop"
  /\ reqs[r].todo # << >>
  /\ LET id == Head(reqs[r].todo)
     IN /\ id \notin ViewUnlocked(r) => \A q \in Reqs \ {r} : id \notin reqs[q].pend_unlocks
        /\ reqs' = [reqs EXCEPT
             ![r].todo = Tail(@),
             ![r].newly_unlocked = Append(@, id),
             ![r].pend_unlocks = IF id \in ViewUnlocked(r) THEN @ ELSE @ \cup {id}]
  /\ UNCHANGED << coreVars, notified, cacheVars, schedVars, notifyVars >>

\* check_and_unlock returns: one schedule_achievement_notification task per
\* entry of newly_unlocked. The task was the last user of a closed session.
TaskReturn(r) ==
  /\ reqs[r].tpc = "loop"
  /\ reqs[r].todo = << >>
  /\ notified' = [a \in AchIds |->
        notified[a] + (IF \E k \in 1..Len(reqs[r].newly_unlocked) :
                             reqs[r].newly_unlocked[k] = a
                       THEN 1 ELSE 0)]
  /\ reqs' = [reqs EXCEPT ![r].tpc = "done",
                          ![r].pend_unlocks = IF reqs[r].pc = "closed" THEN {} ELSE @]
  /\ UNCHANGED << coreVars, cacheVars, schedVars, notifyVars >>

\* The user's tables as the routes can have left them on day 2: nothing; a
\* streak that validate_streak raised to 2 yesterday; one it raised to 3 today.
InitTxn ==
  /\ today = 2
  /\ user_streaks \in { {}, { UserStreak(2, 2, 1) }, { UserStreak(3, 3, 2) } }
  /\ challenge_history = 0
  /\ user_achievements = [a \in AchIds |-> 0]
  /\ procs = [p \in Procs |-> IdleProc]
  /\ lastOp = "none"
  /\ prevOp = "none"
  /\ pre = Snapshot
  /\ ret = << >>
  /\ prevRet = << >>
  /\ completed_dates = {}
  /\ CacheInit
  /\ SchedInit
  /\ TxnInit
  /\ NotifyInit

NextTxn ==
  \/ \E r \in Reqs : AddHistory(r)
  \/ \E r \in Reqs : ReadStreakRow(r)
  \/ \E r \in Reqs : WriteStreak(r)
  \/ \E r \in Reqs : \E ok \in BOOLEAN : CacheDeleteStreak(r, ok)
  \/ \E r \in Reqs : GetStreakData(r)
  \/ \E r \in Reqs : Rollback_get_db(r)
  \/ \E r \in Reqs : Close_get_db(r)
  \/ \E r \in Reqs : TaskQueries(r)
  \/ \E r \in Reqs : TaskUnlock(r)
  \/ \E r \in Reqs : TaskReturn(r)
  \/ Crash

SpecTxn == InitTxn /\ [][NextTxn]_vars

\* ------------------------------------------- push dispatch (SpecNotify)
\* One user. send_notification is called by the scheduler tick and by the
\* schedule_*_notification tasks, each on a session of AsyncSessionLocal
\* (autoflush=False) that is closed without a commit.

\* send_notification without its try / except around the multicast
MulticastRaises_NoExcept(threw) == threw

\* `except Exception` of send_notification: does the call raise to its caller?
MulticastRaises(threw) == FALSE

\* NotificationService.send_notification on the stored tokens: the counts it
\* returns, the tokens it sent to, and the rows it passed to db.delete
SendNotification(available, stored, threw, refused) ==
  IF ~available
  THEN [result |-> [success |-> 0, failure |-> 0], tokens |-> {}, deleted |-> {},
        raised |-> FALSE]
  ELSE IF stored = {}
  THEN [result |-> [success |-> 0, failure |-> 0], tokens |-> {}, deleted |-> {},
        raised |-> FALSE]
  ELSE IF threw
  THEN [result |-> [success |-> 0, failure |-> Cardinality(stored)], tokens |-> stored,
        deleted |-> {}, raised |-> MulticastRaises(threw)]
  ELSE [result |-> [success |-> Cardinality(stored \ refused),
                    failure |-> Cardinality(stored \cap refused)],
        tokens |-> stored, deleted |-> stored \cap refused, raised |-> FALSE]

\* the stored tokens after the caller's `async with AsyncSessionLocal() as db`
\* block ends: the deletes were neither flushed nor committed
AfterSessionClose(stored, deleted) == stored

\* one dispatch: send_notification and the end of its caller's session
send_notification(available, threw, refused) ==
  /\ LET out == SendNotification(available, push_tokens, threw, refused)
     IN /\ push_tokens' = AfterSessionClose(push_tokens, out.deleted)
        /\ rejected_tokens' = rejected_tokens \cup out.deleted
        /\ nop' = [op |-> "send", available |-> available,
                   threw |-> (available /\ push_tokens # {} /\ threw),
                   before |-> push_tokens, tokens |-> out.tokens,
                   rejected |-> out.deleted,
                   known_bad |-> out.tokens \cap rejected_tokens,
                   raised |-> out.raised, result |-> out.result]
  /\ UNCHANGED << coreVars, cacheVars, schedVars, txnVars >>

\* POST /notifications/register: register_token, committed by get_db
register_token(tok) ==
  /\ tok \notin push_tokens
  /\ push_tokens' = push_tokens \cup {tok}
  /\ rejected_tokens' = rejected_tokens \ {tok}
  /\ nop' = [NoSend EXCEPT !.op = "register"]
  /\ UNCHANGED << coreVars, cacheVars, schedVars, txnVars >>

\* DELETE /notifications/unregister: unregister_token, committed by get_db
unregister_push_token(tok) ==
  /\ tok \in push_tokens
  /\ push_tokens' = push_tokens \ {tok}
  /\ rejected_tokens' = rejected_tokens \ {tok}
  /\ nop' = [NoSend EXCEPT !.op = "unregister"]
  /\ UNCHANGED << coreVars, cacheVars, schedVars, txnVars >>

NextNotify ==
  \/ \E available \in BOOLEAN : \E threw \in BOOLEAN : \E refused \in SUBSET Tokens :
       send_notification(available, threw, refused)
  \/ \E tok \in Tokens : register_token(tok)
  \/ \E tok \in Tokens : unregister_push_token(tok)

SpecNotify == Init /\ [][NextNotify]_vars

\* ------------------------------------------------------------ properties
HadRow == pre.user_streaks # {}
PreRow == TheRow(pre.user_streaks)
Row == TheRow(user_streaks)
Max(a, b) == IF a >= b THEN a ELSE b

\* C1: after any sequence of completions, validate_streak and reset_streak
\* calls over any dates, the stored row has longest_streak >= current_streak.
C1_LongestAtLeastCurrent ==
  user_streaks # {} => Row.longest_streak >= Row.current_streak

\* C2: a completion on a date equal to last_completed_date leaves the streak
\* row as it was.
C2_SameDayNoChange ==
  (lastOp = "complete" /\ HadRow /\ PreRow.last_completed_date = pre.today)
    => user_streaks = pre.user_streaks

C2_Witness ==
  /\ lastOp = "complete"
  /\ HadRow
  /\ PreRow.last_completed_date = pre.today
  /\ PreRow.current_streak >= 2
  /\ user_streaks = pre.user_streaks

\* C3: a completion on the day after last_completed_date adds exactly 1 to
\* current_streak, sets last_completed_date to today and leaves longest_streak
\* at max(previous longest_streak, new current_streak), never lower than before.
C3_NextDayIncrements ==
  (lastOp = "complete" /\ HadRow /\ PreRow.last_completed_date = pre.today - 1)
    => /\ user_streaks # {}
       /\ Row.current_streak = PreRow.current_streak + 1
       /\ Row.last_completed_date = pre.today
       /\ Row.longest_streak = Max(PreRow.longest_streak, Row.current_streak)
       /\ Row.longest_streak >= PreRow.longest_streak

C3_Witness ==
  /\ lastOp = "complete"
  /\ HadRow
  /\ PreRow.last_completed_date = pre.today - 1
  /\ Row.current_streak = PreRow.current_streak + 1
  /\ Row.longest_streak > PreRow.longest_streak

\* C4: a completion two or more days after last_completed_date sets
\* current_streak to 1 and last_completed_date to today and leaves
\* longest_streak unchanged.
C4_GapResetsKeepsLongest ==
  (/\ lastOp = "complete"
   /\ HadRow
   /\ PreRow.last_completed_date # None
   /\ PreRow.last_completed_date <= pre.today - 2)
    => /\ user_streaks # {}
       /\ Row.current_streak = 1
       /\ Row.last_completed_date = pre.today
       /\ Row.longest_streak = PreRow.longest_streak

\* C5: a completion by a user without a streak row creates the row with
\* current_streak = 1, longest_streak = 1 and last_completed_date = today.
C5_FirstCompletionCreatesRow ==
  (lastOp = "complete" /\ ~HadRow)
    => user_streaks = { UserStreak(1, 1, pre.today) }

C5_Witness ==
  /\ lastOp = "complete"
  /\ ~HadRow
  /\ user_streaks # {}
  /\ pre.challenge_history = 0
  /\ challenge_history = 1

\* C6: reset_streak on a row sets current_streak to 0, clears
\* last_completed_date and keeps longest_streak; without a row it creates
\* nothing; it changes no other table.
C6_ResetKeepsLongest ==
  lastOp = "reset"
    => /\ IF HadRow
          THEN user_streaks = { UserStreak(0, PreRow.longest_streak, None) }
          ELSE user_streaks = {}
       /\ challenge_history = pre.challenge_history
       /\ user_achievements = pre.user_achievements

C6_Witness ==
  /\ lastOp = "reset"
  /\ HadRow
  /\ PreRow.current_streak >= 2
  /\ PreRow.longest_streak >= 2
  /\ PreRow.last_completed_date # None
  /\ Row.current_streak = 0
  /\ Row.longest_streak >= 2

\* C7: from every streak state and date, validate_streak leaves the rows that
\* the streak update of a completion would leave.
C7_ValidateSameAsUpdate ==
  ValidateStreak(user_streaks, today) = UpdateStreak(user_streaks, today)

\* C8: a check_and_unlock call that directly follows another one returns an
\* empty list and inserts no row.
C8_SecondCheckEmpty ==
  (lastOp = "check" /\ prevOp = "check")
    => /\ ret = << >>
       /\ user_achievements = pre.user_achievements

C8_Witness ==
  /\ lastOp = "check"
  /\ prevOp = "check"
  /\ prevRet # << >>
  /\ ret = << >>
  /\ UnlockedIds(user_achievements) # {}

\* C9: under any interleaving of concurrent check_and_unlock and
\* get_achievements requests, the committed table holds at most one row per
\* achievement id.
C9_OneRowPerAchievement ==
  \A a \in AchIds : user_achievements[a] <= 1

\* two requests raced for the same row and the index rejected the later flush
C9_Witness ==
  \E p \in Procs :
    /\ procs[p].pc = "failed"
    /\ user_achievements[CurDefn(p).id] = 1

SeqRange(q) == { q[k] : k \in 1..Len(q) }

\* the condition of a definition on the stats a call started from
SatisfiedAtStart(defn) ==
  \/ /\ defn.category = "streak"
     /\ pre.user_streaks # {}
     /\ PreRow.longest_streak >= defn.requirement
  \/ /\ defn.category = "challenges"
     /\ pre.challenge_history >= defn.requirement

\* C10: check_and_unlock returns, once each, exactly the definitions whose
\* condition (longest_streak or history count >= requirement) holds and that
\* had no row when the call started.
C10_ReturnsNewlySatisfied ==
  lastOp = "check"
    => /\ SeqRange(ret) =
            { ACHIEVEMENT_DEFINITIONS[k].id : k \in
                { j \in 1..Len(ACHIEVEMENT_DEFINITIONS) :
                    /\ SatisfiedAtStart(ACHIEVEMENT_DEFINITIONS[j])
                    /\ pre.user_achievements[ACHIEVEMENT_DEFINITIONS[j].id] = 0 } }
       /\ Cardinality(SeqRange(ret)) = Len(ret)

\* streak_3 returned on the high-water mark while current_streak is below 3
C10_Witness ==
  /\ lastOp = "check"
  /\ HadRow
  /\ PreRow.current_streak < 3
  /\ PreRow.longest_streak >= 3
  /\ ret = << "streak_3" >>

\* ids that a get_achievements response reports with is_unlocked = True
ReportedUnlocked(resp) ==
  { resp.achievements[k].id : k \in
      { j \in 1..Len(resp.achievements) : resp.achievements[j].is_unlocked } }

C12_Streak3OnThirdDay ==
  /\ user_achievements["streak_3"] > 0 => StreakLongest(user_streaks) >= 3
  /\ (lastOp = "check" /\ StreakLongest(pre.user_streaks) >= 3)
       => user_achievements["streak_3"] = 1
  /\ (lastOp = "check" /\ StreakLongest(pre.user_streaks) < 3)
       => (user_achievements["streak_3"] = 0 /\ "streak_3" \notin SeqRange(ret))

\* the check after the third consecutive completion returns streak_3
C12_Witness ==
  /\ lastOp = "check"
  /\ prevOp = "complete"
  /\ pre.today = 3
  /\ pre.challenge_history = 3
  /\ pre.user_streaks = { UserStreak(3, 3, 3) }
  /\ ret = << "streak_3" >>
  /\ user_achievements["streak_3"] = 1

\* C13: no call removes a user_achievements row; for the user with
\* longest_streak 10, get_achievements right after reset_streak reports
\* streak_7 unlocked, and check_and_unlock never returns streak_7 once its row
\* exists.
C13_UnlockedStaysUnlocked ==
  /\ \A a \in AchIds : user_achievements[a] >= pre.user_achievements[a]
  /\ (lastOp = "get" /\ prevOp = "reset")
       => /\ "streak_7" \in ReportedUnlocked(ret)
          /\ user_achievements["streak_7"] = 1
  /\ (lastOp = "check" /\ pre.user_achievements["streak_7"] > 0)
       => "streak_7" \notin SeqRange(ret)

\* streak_7 was unlocked, the streak was reset, and the list still shows it
C13_Witness ==
  /\ lastOp = "get"
  /\ prevOp = "reset"
  /\ pre.user_achievements["streak_7"] = 1
  /\ pre.user_streaks = { UserStreak(0, VeteranStreak, None) }
  /\ "streak_7" \in ReportedUnlocked(ret)

\* C14: when a reminder write has returned, no key that get_reminders reads
\* for the user holds a list other than the store's current one.
C14_WritesInvalidate ==
  (rop.op \in {"create", "update", "delete", "toggle"} /\ rop.out = "ok")
    => \A e \in BOOLEAN :
         cache[CacheKey(e)].kind = "json"
           => cache[CacheKey(e)].body = StoreResponse(reminders, e)

\* C15: a get_reminders call that met a cache failure (server unreachable,
\* value not deserializable) returns the store's list and raises nothing.
C15_CacheFailureAbsorbed ==
  (rop.op = "get" /\ rop.fault # "none")
    => /\ rop.out = "ok"
       /\ rop.ret = StoreResponse(reminders, rop.arg)

\* C16: start() while running is a no-op and stop() while stopped is a no-op,
\* the scheduler is running after start() and stopped after stop(), and at
\* most one polling-loop task is alive at any time
C16_SingleLoop ==
  /\ Cardinality(LiveTasks) <= 1
  /\ running => LiveTasks = {task}
  /\ (~running /\ stop_pc = "idle") => LiveTasks = {}
  /\ sop.op = "start" =>
       /\ running
       /\ starts = sop.startsBefore + (IF sop.wasRunning THEN 0 ELSE 1)
  /\ sop.op \in {"stop", "stop_returned"} =>
       /\ ~running
       /\ starts = sop.startsBefore
       /\ ~sop.wasRunning => stop_pc = "idle"

\* start() was called on a running scheduler, whose one task is still alive
C16_Witness ==
  /\ sop.op = "start"
  /\ sop.wasRunning
  /\ starts = 1
  /\ LiveTasks = {1}

\* C17 as stated: when stop() was called while an iteration was part-way
\* through its matching reminders, all of them have been dispatched by the
\* time stop() returns
C17_StopFinishesIteration ==
  (sop.op = "stop_returned" /\ sop.inflight) =>
    sop.matching \subseteq tasks[task].sent

\* C17 amended: stop() returns only after the polling task has ended, and the
\* task dispatches nothing after stop() was called: the iteration in flight is
\* cancelled at its current await and its remaining reminders are skipped
C17_StopCancelsIteration ==
  /\ sop.op = "stop_returned" =>
       /\ tasks[task].pc = "done"
       /\ tasks[task].sent = sop.sentAtCall
  /\ (sop.op = "stop" /\ sop.wasRunning) => tasks[task].sent = sop.sentAtCall

\* stop() has returned from a call made part-way through an iteration, and a
\* matching reminder of that iteration was never dispatched
C17_Witness ==
  /\ sop.op = "stop_returned"
  /\ sop.inflight
  /\ sop.matching \ tasks[task].sent # {}
  /\ tasks[task].pc = "done"

\* C18: a loop started once and ticking every minute makes at most one
\* dispatch attempt per day for a daily reminder
C18_DailyOncePerDay ==
  starts <= 1 =>
    \A i \in 1..Len(table) :
      table[i].frequency = "daily" => attempts[i] <= 1

\* the names of the days, by Python's weekday() (0 = Monday)
DayName == << "Monday", "Tuesday", "Wednesday", "Thursday", "Friday",
              "Saturday", "Sunday" >>

\* the number of a day in the 0 = Sunday .. 6 = Saturday numbering
SundayNumber(name) ==
  CASE name = "Sunday" -> 0
    [] name = "Monday" -> 1
    [] name = "Tuesday" -> 2
    [] name = "Wednesday" -> 3
    [] name = "Thursday" -> 4
    [] name = "Friday" -> 5
    [] name = "Saturday" -> 6

\* C19: at the minute of the clock, on every weekday, a custom reminder matches
\* exactly when it is within its time window and the day, numbered from
\* 0 = Sunday, is one of its custom_days; a weekdays reminder exactly when it
\* is within its window and the day is Monday to Friday
C19_CustomDaysSundayBased ==
  \A i \in 1..Len(table) : \A wd \in 0..6 :
    LET now == [weekday |-> wd, minute |-> clock.minute]
        name == DayName[wd + 1]
    IN /\ table[i].frequency = "custom" =>
            (ShouldSendReminder(table[i], now)
               <=> (TimeMatches(table[i], now)
                      /\ SundayNumber(name) \in table[i].custom_days))
       /\ table[i].frequency = "weekdays" =>
            (ShouldSendReminder(table[i], now)
               <=> (TimeMatches(table[i], now)
                      /\ name \in {"Monday", "Tuesday", "Wednesday",
                                   "Thursday", "Friday"}))
       /\ \A t \in 1..MaxStarts :
            (i \in tasks[t].sent /\ table[i].frequency = "custom") =>
               SundayNumber(DayName[tasks[t].now.weekday + 1]) \in table[i].custom_days

\* the custom reminder with custom_days {1, 3} was dispatched on a Monday
C19_Witness ==
  \E t \in 1..MaxStarts :
    /\ table = TableMorning
    /\ 2 \in tasks[t].sent
    /\ tasks[t].now.weekday = 0

\* C20: an iteration in which a dispatch failed is still in the loop, and when
\* it reaches its sleep every matching reminder of the tick has been dispatched
C20_DispatchFailureAbsorbed ==
  \A t \in 1..MaxStarts :
    (tasks[t].failedAt # {} /\ tasks[t].pc # "done") =>
      /\ tasks[t].pc \in {"send", "sleep"}
      /\ tasks[t].pc = "sleep" => tasks[t].sent = Matching(table, tasks[t].now)

\* an iteration is over in which the first dispatch failed and two more
\* reminders, of the same user and of another, were dispatched all the same
C20_Witness ==
  \E t \in 1..MaxStarts :
    /\ tasks[t].pc = "sleep"
    /\ table = TableMorning
    /\ tasks[t].failedAt = {1}
    /\ tasks[t].sent = {1, 2, 3}

\* C21: an exception in an iteration never ends the task while the scheduler
\* is running, and after every failed iteration, unless stop() is called, the
\* task executes another iteration
C21_LoopSurvivesFailure ==
  /\ [](running => tasks[task].pc # "done")
  /\ \A t \in 1..MaxStarts : \A e \in 0..(MaxTicks - 1) :
       (/\ running
        /\ tasks[t].pc \in {"sleep", "errsleep"}
        /\ tasks[t].failed # "no"
        /\ elapsed = e)
         ~> ((tasks[t].afterFailure /\ elapsed > e) \/ ~running)

\* the running task is in the iteration that follows one in which the
\* exception left _check_and_send_reminders
C21_Witness ==
  \E t \in 1..MaxStarts :
    /\ running
    /\ tasks[t].afterFailure
    /\ tasks[t].pc = "fetch"
    /\ elapsed >= 1

\* the distance in minutes between two times of day, around the clock
CircularDistance(a, b) ==
  IF Abs(a - b) <= MinutesPerDay - Abs(a - b)
  THEN Abs(a - b)
  ELSE MinutesPerDay - Abs(a - b)

\* C28: the time test is true exactly when the reminder's time is within one
\* minute of the clock, measured around the clock
C28_WindowAroundTheClock ==
  \A i \in 1..Len(table) :
    TimeMatches(table[i], clock)
      <=> CircularDistance(NowMinutes(clock),
                           table[i].time_hour * 60 + table[i].time_minute) <= 1

\* C30: an iteration that ended without a failure of the query or of the
\* session has dispatched every matching reminder whose stored time is valid
C30_EvaluationFailureAbsorbed ==
  \A t \in 1..MaxStarts :
    (tasks[t].pc = "sleep" /\ tasks[t].failed \notin {"fetch", "session"}) =>
      Matching(table, tasks[t].now) \subseteq tasks[t].sent

\* C26: on any date and from any stored streak, a second validate_streak
\* stores what the first one stored (its response repeats the stored
\* current_streak and longest_streak)
C26_ValidateIdempotent ==
  ValidateStreak(ValidateStreak(user_streaks, today), today)
    = ValidateStreak(user_streaks, today)

\* C27: current_streak is at most the number of dates with a completion,
\* last_completed_date is a date with a completion, and validate_streak
\* does not raise current_streak
C27_StreakCountsCompletions ==
  /\ user_streaks # {} =>
       /\ Row.current_streak <= Cardinality(completed_dates)
       /\ Row.last_completed_date # None => Row.last_completed_date \in completed_dates
  /\ (lastOp = "validate" /\ HadRow) => Row.current_streak <= PreRow.current_streak

\* C24: the committed tables hold the history row of a request exactly when
\* they hold its streak update, at every moment: while requests are in
\* flight, after an error and after a crash
C24_HistoryAndStreakTogether ==
  /\ \A r \in Reqs : reqs[r].c_hist = reqs[r].c_streak
  /\ challenge_history
       = pre.challenge_history + Cardinality({ r \in Reqs : reqs[r].c_hist })
  /\ (\A r \in Reqs : ~reqs[r].c_streak) => user_streaks = pre.user_streaks

\* a request has flushed its history row and its streak update, an error was
\* raised after both, and the committed tables hold neither
C24_Witness ==
  \E r \in Reqs :
    /\ reqs[r].pc = "closed"
    /\ reqs[r].error = "attribute"
    /\ reqs[r].wrote_streak
    /\ ~reqs[r].c_hist /\ ~reqs[r].c_streak
    /\ challenge_history = pre.challenge_history
    /\ user_streaks = pre.user_streaks

\* C25: of complete-challenge requests of the same day, however interleaved,
\* every one that neither crashed nor lost Redis succeeds, there is one
\* streak row at most, and once one has committed the streak is that of a
\* single completion
C25_ConcurrentSameDay ==
  /\ \A r \in Reqs :
       (reqs[r].pc = "closed" /\ reqs[r].error \notin {"crash", "redis"})
         => reqs[r].error = "none"
  /\ Cardinality(user_streaks) <= 1
  /\ (\E r \in Reqs : reqs[r].c_streak)
       => user_streaks = UpdateStreak(pre.user_streaks, today)

\* C29: no achievement is returned as newly unlocked twice, and when all
\* requests and checks are over, and the process never crashed, every
\* achievement that was returned as newly unlocked has a committed row
C29_UnlockReportedOnce ==
  /\ \A a \in AchIds : notified[a] <= 1
  /\ (\A r \in Reqs : /\ reqs[r].pc \in {"idle", "closed"}
                        /\ reqs[r].tpc \in {"none", "done"}
                        /\ reqs[r].error # "crash")
       => \A a \in AchIds : notified[a] > 0 => user_achievements[a] > 0

\* C22: every token the transport has rejected is gone from the store, the
\* tokens it accepted are still there, and no dispatch goes to a token that
\* an earlier dispatch saw rejected
C22_RejectedTokensRemoved ==
  /\ rejected_tokens \cap push_tokens = {}
  /\ nop.op = "send" =>
       /\ (nop.tokens \ nop.rejected) \subseteq push_tokens
       /\ nop.known_bad = {}

\* C23: send_notification does not raise; without transport and without
\* tokens it returns success 0 and failure 0, when the multicast throws
\* success 0 and failure = number of tokens; in all three cases the stored
\* tokens are as before
C23_TransportFailureIsAResult ==
  nop.op = "send" =>
    /\ ~nop.raised
    /\ (~nop.available \/ nop.before = {}) =>
         /\ nop.result = [success |-> 0, failure |-> 0]
         /\ push_tokens = nop.before
    /\ nop.threw =>
         /\ nop.result = [success |-> 0, failure |-> Cardinality(nop.before)]
         /\ push_tokens = nop.before

\* the multicast threw on a dispatch to two tokens or more
C23_Witness ==
  /\ nop.op = "send"
  /\ nop.threw
  /\ nop.result.failure >= 2
  /\ ~nop.raised

====
